---- MODULE Spec2Model ----
(***************************************************************************)
(* Audit execution engine of the service standards auditor:                *)
(*   - mapWithConcurrency (dist/utils/concurrency.js), the bounded worker  *)
(*     pool over a shared index counter;                                   *)
(*   - RuleEngine.executeRules / executeRulesParallel                      *)
(*     (src/rules/rule-engine.ts);                                         *)
(*   - Auditor.audit and its helpers (auditor/auditor.js);                 *)
(*   - RuleFactory.createRules (rules/rule-factory.ts);                    *)
(*   - ServiceScanner.scan and parseService (scanner/service-scanner.js);  *)
(*   - CoverageRule.evaluate (src/rules/implementations/coverage-rule.ts)  *)
(*     and batchProcess (dist/utils/concurrency.js).                       *)
(*                                                                         *)
(* JavaScript runs the continuations of one event loop one at a time, so   *)
(* every action below is one continuation: the code between two awaits.    *)
(* Array positions keep the source's 0-based indices (index,               *)
(* currentIndex); TLA+ sequences are 1-based, so items[currentIndex] of    *)
(* the source is items[currentIndex + 1] here.                             *)
(* Percentages are kept as integers: score in tenths, passRate in          *)
(* hundredths of a percent.                                                *)
(***************************************************************************)
EXTENDS Integers, Sequences, FiniteSets, TLC

VARIABLES
    \* ---- mapWithConcurrency ----
    items,          \* the items argument
    concurrency,    \* the concurrency argument
    index,          \* let index = 0: next unclaimed position (0-based)
    results,        \* new Array(items.length): <<>> is an empty slot, <<v>> a stored value
    workers,        \* the promises of Array.from({length}, () => worker())
    fnPromise,      \* the promise of fn(items[i], i) for every position
    fnCalls,        \* the positions fn was invoked on, in time order (0-based)
    mapPromise,     \* the promise returned by mapWithConcurrency
    \* ---- Auditor / RuleEngine ----
    config,         \* this.config: rules, parallel
    onProgress,     \* the onProgress argument of audit
    pc,             \* stage of the audit invocation
    services,       \* result of scanner.scan
    rules,          \* result of RuleFactory.createRules
    evaluating,     \* rule.evaluate invocations in flight: <<service, rule>> positions (1-based)
    promises,       \* executeRulesParallel: the promises array of every service's engine
    engineResults,  \* executeRules: the results list of the engine running now
    serviceResults, \* auditServicesSequential: serviceResults
    cursor,         \* auditServicesSequential / executeRules: loop positions
    completed,      \* auditServicesParallel: completed
    progressLog,    \* the calls made to onProgress, in time order
    settled,        \* the rule.evaluate invocations that have settled, with what they did
    report,         \* the value audit returned
    \* ---- ServiceScanner ----
    options,        \* this.options of the scanner: exclude
    tree,           \* what is on disk at targetPath
    packageFiles,   \* scan: the package.json files glob returned
    parsing,        \* scan: the promises of parseService, one per package file
    scanPromise     \* the promise returned by scan

mapVars == <<items, concurrency, index, results, workers, fnPromise, fnCalls, mapPromise>>
scanVars == <<options, tree, packageFiles, parsing, scanPromise>>
auditVars == <<config, onProgress, pc, services, rules, evaluating, promises,
               engineResults, serviceResults, cursor, completed, progressLog, settled, report,
               options, tree, packageFiles, parsing, scanPromise>>
vars == <<items, concurrency, index, results, workers, fnPromise, fnCalls, mapPromise,
          config, onProgress, pc, services, rules, evaluating, promises,
          engineResults, serviceResults, cursor, completed, progressLog, settled, report,
          options, tree, packageFiles, parsing, scanPromise>>

----------------------------------------------------------------------------
(* Bounds of the model *)

MaxItems == 4
MaxServices == 3
MaxRules == 3
MaxEvaluations == 4
MaxScoreRules == 4
MaxReportServices == 5
MaxConcurrency == 3
MaxPoolServices == 11
MaxManifests == 3
ItemValues == 1..2

----------------------------------------------------------------------------
(* Helpers *)

Min(a, b) == IF a < b THEN a ELSE b

RECURSIVE SeqsUpTo(_, _)
SeqsUpTo(S, n) ==
    IF n = 0 THEN {<<>>}
    ELSE LET shorter == SeqsUpTo(S, n - 1)
         IN  shorter \cup {Append(s, x) : s \in {t \in shorter : Len(t) = n - 1}, x \in S}

----------------------------------------------------------------------------
(* mapWithConcurrency: dist/utils/concurrency.js *)

Unstarted == [state |-> "unstarted", value |-> <<>>]
Pending   == [state |-> "pending",   value |-> <<>>]
Fulfilled(v) == [state |-> "fulfilled", value |-> <<v>>]
Rejected(e)  == [state |-> "rejected",  value |-> <<e>>]

\* The transform of the unit tests: async (item) => item * 2
Transform(item, i) == item * 2

\* A worker that reads the shared index without advancing it.
WorkerLoopNoAdvance(st, w, n) ==
    IF st.index < n /\ Len(st.fnCalls) < 2 * n
    THEN [index     |-> st.index,
          workers   |-> [st.workers EXCEPT ![w] = [state |-> "awaiting", currentIndex |-> st.index]],
          fnPromise |-> [st.fnPromise EXCEPT ![st.index + 1] = Pending],
          fnCalls   |-> Append(st.fnCalls, st.index)]
    ELSE [st EXCEPT !.workers[w] = [state |-> "done", currentIndex |-> st.workers[w].currentIndex]]

\* One pass of the worker's loop, up to its await:
\*   while (index < items.length) { const currentIndex = index++; ... await fn(items[currentIndex], currentIndex)
\* st holds the closure's index, the workers and the promises of fn.
WorkerLoop(st, w, n) ==
    IF st.index < n
    THEN [index     |-> st.index + 1,
          workers   |-> [st.workers EXCEPT ![w] = [state |-> "awaiting", currentIndex |-> st.index]],
          fnPromise |-> [st.fnPromise EXCEPT ![st.index + 1] = Pending],
          fnCalls   |-> Append(st.fnCalls, st.index)]
    ELSE [st EXCEPT !.workers[w] = [state |-> "done", currentIndex |-> st.workers[w].currentIndex]]

\* Array.from({ length }, () => worker()): the workers are started one after
\* the other, each running until its first await.
RECURSIVE StartWorkers(_, _, _)
StartWorkers(st, k, n) ==
    IF k = 0 THEN st
    ELSE WorkerLoop(StartWorkers(st, k - 1, n), k, n)

\* One worker per item, whatever the limit.
WorkerCountPerItem(conc, n) == n

\* Math.min(concurrency, items.length)
WorkerCount(conc, n) == Min(conc, n)

\* results.push(value): the values in the order the transforms completed.
StoreInCompletionOrder(res, currentIndex, value) ==
    LET free == {k \in DOMAIN res : res[k] = <<>>}
        first == CHOOSE k \in free : \A m \in free : k <= m
    IN  [res EXCEPT ![first] = <<value>>]

\* results[currentIndex] = <the awaited value>
StoreResult(res, currentIndex, value) == [res EXCEPT ![currentIndex + 1] = <<value>>]

\* The synchronous part of a call mapWithConcurrency(its, fn, conc).
MapStart(its, conc) ==
    LET n  == Len(its)
        nw == WorkerCount(conc, n)
        st == StartWorkers([index     |-> 0,
                            workers   |-> [w \in 1..nw |-> [state |-> "new", currentIndex |-> 0]],
                            fnPromise |-> [i \in 1..n |-> Unstarted],
                            fnCalls   |-> <<>>],
                           nw, n)
    IN  /\ items' = its
        /\ concurrency' = conc
        /\ results' = [i \in 1..n |-> <<>>]
        /\ index' = st.index
        /\ workers' = st.workers
        /\ fnPromise' = st.fnPromise
        /\ fnCalls' = st.fnCalls
        /\ mapPromise' = Pending

\* A worker resumes after its await: it stores the value and loops, or the
\* await throws and the worker's promise rejects.
WorkerResume(w) ==
    LET cur == workers[w].currentIndex
        p   == fnPromise[cur + 1]
    IN  /\ workers[w].state = "awaiting"
        /\ p.state \in {"fulfilled", "rejected"}
        /\ IF p.state = "fulfilled"
           THEN LET st == WorkerLoop([index |-> index, workers |-> workers,
                                      fnPromise |-> fnPromise, fnCalls |-> fnCalls],
                                     w, Len(items))
                IN  /\ results' = StoreResult(results, cur, p.value[1])
                    /\ index' = st.index
                    /\ workers' = st.workers
                    /\ fnPromise' = st.fnPromise
                    /\ fnCalls' = st.fnCalls
           ELSE /\ workers' = [workers EXCEPT ![w] = [state |-> "rejected", currentIndex |-> cur]]
                /\ UNCHANGED <<results, index, fnPromise, fnCalls>>
        /\ UNCHANGED <<items, concurrency>>

\* await Promise.all(workers); return results
\* A race: the mapping resolves when the first worker has finished.
PromiseAnyFulfilled ==
    /\ mapPromise.state = "pending"
    /\ \E w \in DOMAIN workers : workers[w].state = "done"

PromiseAllFulfilled ==
    /\ mapPromise.state = "pending"
    /\ \A w \in DOMAIN workers : workers[w].state = "done"

PromiseAllRejected ==
    /\ mapPromise.state = "pending"
    /\ \E w \in DOMAIN workers : workers[w].state = "rejected"

\* A mapping that wraps the failure of a transform in an error of its own.
RejectionWrapped(w) == [message |-> "Mapping failed", item |-> workers[w].currentIndex]

\* The error Promise.all rejects with: the rejection of a worker, which is
\* the rejection of the fn promise that worker awaited.
RejectionOf(w) == fnPromise[workers[w].currentIndex + 1].value[1]

MapSettle ==
    /\ \/ /\ PromiseAllFulfilled
          /\ mapPromise' = Fulfilled(results)
       \/ /\ PromiseAllRejected
          /\ \E w \in DOMAIN workers :
                /\ workers[w].state = "rejected"
                /\ mapPromise' = Rejected(RejectionOf(w))
    /\ UNCHANGED <<items, concurrency, index, results, workers, fnPromise, fnCalls>>

----------------------------------------------------------------------------
(* ServiceScanner: scanner/service-scanner.js *)

\* The default exclude patterns of the constructor, '**/<name>/**', each
\* kept as the directory name it excludes
DefaultExclude == {"node_modules", "dist", "build", ".git", "coverage"}

\* constructor(options = {}): exclude: options.exclude || [defaults].
\* The exclude argument is <<>> when absent and <<S>> when the list S was
\* given (a list, even an empty one, is truthy).
ScannerOptions(exclude) ==
    [exclude |-> IF exclude = <<>> THEN DefaultExclude ELSE exclude[1]]

\* The package.json files a tree can hold, in the order glob lists them:
\* the directory of the manifest below the root, whether readFile succeeds,
\* what JSON.parse makes of the content ("object", "null", or "garbage"
\* when it throws), the name field ("" when absent) and the dependency
\* that decides the type.
ManifestCatalogue ==
    << [dir |-> <<"api">>,    readable |-> TRUE,  json |-> "object",  name |-> "api", deps |-> "express"],
       [dir |-> <<"web">>,    readable |-> TRUE,  json |-> "object",  name |-> "",    deps |-> "react"],
       [dir |-> <<"broken">>, readable |-> TRUE,  json |-> "garbage", name |-> "",    deps |-> "none"],
       [dir |-> <<"locked">>, readable |-> FALSE, json |-> "object",  name |-> "locked", deps |-> "none"],
       [dir |-> <<"nulled">>, readable |-> TRUE,  json |-> "null",    name |-> "",    deps |-> "none"],
       [dir |-> <<"api", "node_modules", "dep">>,
                              readable |-> TRUE,  json |-> "object",  name |-> "dep", deps |-> "none"] >>

\* What targetPath can be
RootKinds == {"directory", "file", "missing", "denied"}

\* A scanner that has not been asked to scan
ScanIdle ==
    /\ options = ScannerOptions(<<>>)
    /\ tree = [root |-> "directory", files |-> {}]
    /\ packageFiles = <<>>
    /\ parsing = <<>>
    /\ scanPromise = Unstarted

\* ignore: this.options.exclude: a file is left out when one of the
\* directories on its path is excluded
Ignored(dir, exclude) == \E k \in DOMAIN dir : dir[k] \in exclude

\* glob('**/package.json', { cwd, ignore, onlyFiles }) on the tree
RECURSIVE GlobFrom(_, _, _)
GlobFrom(files, exclude, k) ==
    IF k > Len(ManifestCatalogue) THEN <<>>
    ELSE (IF k \in files /\ ~Ignored(ManifestCatalogue[k].dir, exclude)
          THEN <<ManifestCatalogue[k]>> ELSE <<>>)
         \o GlobFrom(files, exclude, k + 1)

Glob(t, opts) == GlobFrom(t.files, opts.exclude, 1)

\* detectServiceType: express/koa/fastify/hapi and typescript give 'node',
\* react/vue/angular give 'frontend', anything else 'node'
DetectServiceType(file) == IF file.deps = "react" THEN "frontend" ELSE "node"

\* readFile or JSON.parse threw, or the content parsed to null (pkg.name
\* then throws a TypeError inside the try block)
ParseFails(file) == ~file.readable \/ file.json # "object"

\* A parseService that gives null for a package file it cannot parse.
ParseServiceNullOnFailure(file) ==
    IF ParseFails(file) THEN <<>>
    ELSE <<[name |-> IF file.name = "" THEN "unknown" ELSE file.name,
            path |-> file.dir,
            type |-> DetectServiceType(file)]>>

\* parseService: the Service of a package file, <<service>>; <<>> stands
\* for null. The catch block returns the minimal service.
ParseService(file) ==
    IF ParseFails(file)
    THEN <<[name |-> "unknown", path |-> file.dir, type |-> "unknown"]>>
    ELSE <<[name |-> IF file.name = "" THEN "unknown" ELSE file.name,
            path |-> file.dir,
            type |-> DetectServiceType(file)]>>

\* services.filter((service) => service !== null)
RECURSIVE ValidServices(_)
ValidServices(parsed) ==
    IF parsed = <<>> THEN <<>>
    ELSE Head(parsed) \o ValidServices(Tail(parsed))

\* The errors scan rejects with
FileSystemError(message) == [name |-> "FileSystemError", message |-> message]
ServiceScanError(message) == [name |-> "ServiceScanError", message |-> message]

----------------------------------------------------------------------------
(* mapWithConcurrency driven as in tests/utils/concurrency.test.ts *)

NoConfig == [rules |-> <<>>, parallel |-> FALSE]
NoReport == <<>>

AuditIdle ==
    /\ config = NoConfig
    /\ onProgress = "none"
    /\ pc = "unused"
    /\ services = <<>>
    /\ rules = <<>>
    /\ evaluating = {}
    /\ promises = <<>>
    /\ engineResults = <<>>
    /\ serviceResults = <<>>
    /\ cursor = [service |-> 0, rule |-> 0]
    /\ completed = 0
    /\ progressLog = <<>>
    /\ settled = {}
    /\ report = NoReport
    /\ ScanIdle

MapIdle ==
    /\ index = 0
    /\ results = <<>>
    /\ workers = <<>>
    /\ fnPromise = <<>>
    /\ fnCalls = <<>>
    /\ mapPromise = Unstarted

MapInit ==
    /\ items \in SeqsUpTo(ItemValues, MaxItems)
    /\ concurrency \in 1..MaxConcurrency
    /\ MapIdle
    /\ AuditIdle

MapCall ==
    /\ mapPromise.state = "unstarted"
    /\ MapStart(items, concurrency)
    /\ UNCHANGED auditVars

\* throw new Error('Test error') in the transform of one item: the error
\* object thrown for the item at position i (0-based).
TestError(i) == [message |-> "Test error", item |-> i]

\* The transform of one item settles: it returns its value or throws.
FnSettle(i) ==
    /\ fnPromise[i].state = "pending"
    /\ \/ fnPromise' = [fnPromise EXCEPT ![i] = Fulfilled(Transform(items[i], i - 1))]
       \/ fnPromise' = [fnPromise EXCEPT ![i] = Rejected(TestError(i - 1))]
    /\ UNCHANGED <<items, concurrency, index, results, workers, fnCalls, mapPromise>>
    /\ UNCHANGED auditVars

MapWorkerResume(w) ==
    /\ WorkerResume(w)
    /\ UNCHANGED mapPromise
    /\ UNCHANGED auditVars

MapReturn ==
    /\ MapSettle
    /\ UNCHANGED auditVars

MapNext ==
    \/ MapCall
    \/ \E i \in DOMAIN fnPromise : FnSettle(i)
    \/ \E w \in DOMAIN workers : MapWorkerResume(w)
    \/ MapReturn

MapSpec == MapInit /\ [][MapNext]_vars

\* The event loop runs every continuation that is ready: a worker whose
\* awaited promise has settled resumes, and the reaction of Promise.all
\* runs. Nothing obliges a transform to settle.
MapFairness ==
    /\ WF_vars(MapReturn)
    /\ \A w \in 1..MaxConcurrency : WF_vars(w \in DOMAIN workers /\ MapWorkerResume(w))

MapFairSpec == MapSpec /\ MapFairness

----------------------------------------------------------------------------
(* ServiceScanner.scan on bounded trees *)

ScanInit ==
    /\ options \in {ScannerOptions(e) : e \in {<<>>, <<{}>>, <<{"tmp"}>>}}
    /\ tree \in [root : RootKinds,
                  files : {f \in SUBSET DOMAIN ManifestCatalogue : Cardinality(f) <= MaxManifests}]
    /\ packageFiles = <<>>
    /\ parsing = <<>>
    /\ scanPromise = Pending
    /\ config = NoConfig
    /\ onProgress = "none"
    /\ pc = "stat"
    /\ services = <<>>
    /\ rules = <<>>
    /\ evaluating = {}
    /\ promises = <<>>
    /\ engineResults = <<>>
    /\ serviceResults = <<>>
    /\ cursor = [service |-> 0, rule |-> 0]
    /\ completed = 0
    /\ progressLog = <<>>
    /\ settled = {}
    /\ report = NoReport
    /\ items = <<>>
    /\ concurrency = 0
    /\ MapIdle

ScanFrame ==
    /\ UNCHANGED <<config, onProgress, services, rules, evaluating, promises, engineResults,
                   serviceResults, cursor, completed, progressLog, settled, report>>
    /\ UNCHANGED mapVars
    /\ UNCHANGED <<options, tree>>

\* Every failure of stat reported as a scan failure, whatever its cause.
StatFailureAlwaysScanError(root) == ServiceScanError("Failed to scan directory")

\* What scan throws on a root that is not a directory: the throw after
\* !stats.isDirectory(), and the catch block's ENOENT branch and fallback
StatFailure(root) ==
    IF root = "file" THEN FileSystemError("Path is not a directory")
    ELSE IF root = "missing" THEN FileSystemError("Path does not exist")
    ELSE ServiceScanError("Failed to scan directory")

\* const stats = await stat(targetPath) and the catch block around it
ScanStat ==
    /\ pc = "stat"
    /\ IF tree.root = "directory"
       THEN /\ pc' = "glob"
            /\ UNCHANGED scanPromise
       ELSE /\ pc' = "scan-failed"
            /\ scanPromise' = Rejected(StatFailure(tree.root))
    /\ UNCHANGED <<packageFiles, parsing>>
    /\ ScanFrame

\* const packageFiles = await glob(pattern, globOptions), then
\* packageFiles.map((pkgPath) => this.parseService(...)): every parseService
\* runs up to its await readFile
ScanGlob ==
    /\ pc = "glob"
    /\ packageFiles' = Glob(tree, options)
    /\ parsing' = [k \in DOMAIN packageFiles' |-> Pending]
    /\ pc' = "parsing"
    /\ UNCHANGED scanPromise
    /\ ScanFrame

\* readFile of one package file settles and the rest of parseService runs
ParseSettle(k) ==
    /\ pc = "parsing"
    /\ parsing[k].state = "pending"
    /\ parsing' = [parsing EXCEPT ![k] = Fulfilled(ParseService(packageFiles[k]))]
    /\ UNCHANGED <<pc, packageFiles, scanPromise>>
    /\ ScanFrame

\* Promise.all of the parses has resolved: filter and return
ScanReturn ==
    /\ pc = "parsing"
    /\ \A k \in DOMAIN parsing : parsing[k].state = "fulfilled"
    /\ scanPromise' = Fulfilled(ValidServices([k \in DOMAIN parsing |-> parsing[k].value[1]]))
    /\ pc' = "scanned"
    /\ UNCHANGED <<packageFiles, parsing>>
    /\ ScanFrame

ScanNext ==
    \/ ScanStat
    \/ ScanGlob
    \/ \E k \in DOMAIN parsing : ParseSettle(k)
    \/ ScanReturn

ScanSpec == ScanInit /\ [][ScanNext]_vars

----------------------------------------------------------------------------
(* Rules: src/rules/base-rule.ts, rules/rule-factory.ts, src/rules/rule-engine.ts *)

\* The rule specifications a configuration is written from. The engine does
\* not require names to be unique; 'custom' passes the schema but has no
\* implementation, 'eslint' is outside RuleTypeSchema.
RuleCatalogue ==
    { [name |-> "has-readme", type |-> "file-exists", required |-> TRUE],
      [name |-> "has-readme", type |-> "semver",      required |-> FALSE],
      [name |-> "coverage",   type |-> "coverage",    required |-> FALSE],
      [name |-> "plugin",     type |-> "custom",      required |-> TRUE],
      [name |-> "lint",       type |-> "eslint",      required |-> FALSE] }

\* RuleFactory.createRule: the types of the switch that return an instance
SupportedTypes == {"file-exists", "semver", "coverage"}

\* switch (config.type): the types that have a case of their own; every
\* other type takes the default branch ("Unsupported rule type").
KnownTypes == {"file-exists", "semver", "coverage", "custom"}
UnknownKind(ruleConfig) == ruleConfig.type \notin KnownTypes

\* A switch whose default branch builds a rule instead of throwing.
CreateRuleThrowsOnCustomOnly(ruleConfig) == ruleConfig.type = "custom"

\* createRule throws in the 'custom' case and in the default branch
CreateRuleThrows(ruleConfig) == ruleConfig.type \notin SupportedTypes

\* new FileExistsRule(config) etc.: BaseRule keeps the configuration
CreateRule(ruleConfig) == [config |-> ruleConfig]

\* RuleFactory.createRules: configs.map((config) => this.createRule(config))
CreateRulesThrows(configs) == \E k \in DOMAIN configs : CreateRuleThrows(configs[k])
CreateRules(configs) == [k \in DOMAIN configs |-> CreateRule(configs[k])]

\* BaseRule.getName / isRequired
GetName(rule) == rule.config.name
IsRequired(rule) == rule.config.required

\* What one rule.evaluate(service) invocation can do: return a result
\* (passed or not) or throw.
EvalOutcomes ==
    { [kind |-> "return", passed |-> TRUE,  cause |-> ""],
      [kind |-> "return", passed |-> FALSE, cause |-> ""],
      [kind |-> "throw",  passed |-> FALSE, cause |-> "EACCES"] }

\* The RuleResult a built-in rule returns: ruleName: this.config.name
RuleReturn(rule, passed) ==
    [ruleName |-> rule.config.name,
     passed   |-> passed,
     message  |-> <<rule.config.type, IF passed THEN "passed" ELSE "failed">>]

\* catch (error): { ruleName: rule.getName(), passed: false,
\*                  message: `Rule execution failed: ${errorMessage}` }
ExecutionFailed(rule, errorMessage) ==
    [ruleName |-> GetName(rule),
     passed   |-> FALSE,
     message  |-> <<"Rule execution failed: ", errorMessage>>]

\* The body of the try/catch around rule.evaluate in executeRules and in
\* executeRulesParallel.
TryEvaluate(rule, outcome) ==
    IF outcome.kind = "return"
    THEN RuleReturn(rule, outcome.passed)
    ELSE ExecutionFailed(rule, outcome.cause)

\* A catch block that leaves the loop (break) after the failing rule.
AfterRuleAbortOnThrow(j, n, outcome) == IF outcome.kind = "throw" THEN n + 1 ELSE j + 1

\* for (const rule of this.rules) { try { ... } catch (error) { ... } }:
\* the position of the loop after rule j (1-based) of n; the catch block
\* does not leave the loop.
AfterRule(j, n, outcome) == j + 1

\* Results collected as the evaluations complete (results.push in the
\* wrapper) instead of through the promises array.
SettleInCompletionOrder(ps, j, result) ==
    LET open == {k \in DOMAIN ps : ps[k].state = "pending"}
        first == CHOOSE k \in open : \A m \in open : k <= m
    IN  [ps EXCEPT ![first] = Fulfilled(result)]

\* const results = await Promise.all(promises): the wrapper of rule j
\* resolves its own entry of the promises array.
SettlePromise(ps, j, result) == [ps EXCEPT ![j] = Fulfilled(result)]

\* The recorded outcome of the evaluation of rule j on service i
OutcomeOfEvaluation(i, j) == (CHOOSE x \in settled : x.service = i /\ x.rule = j).outcome

\* What is remembered of a settled rule.evaluate(services[i]) of rule j:
\* its outcome, and whether an earlier rule of the same service was still
\* being evaluated at that moment.
Settlement(i, j, outcome) ==
    [service |-> i, rule |-> j, outcome |-> outcome,
     overtook |-> \E k \in 1..(j - 1) : <<i, k>> \in evaluating]

----------------------------------------------------------------------------
(* Auditor: auditor/auditor.js *)

\* Math.round(num / den) for num >= 0, den > 0: halves round up
JsRound(num, den) == (2 * num + den) \div (2 * den)

\* results.filter((r) => r.passed).length
PassedCount(list) == Cardinality({k \in DOMAIN list : list[k].passed})

\* Auditor.checkRequiredRules
CheckRequiredRules(cfg, ruleResults) ==
    LET requiredRuleNames == {cfg.rules[k].name : k \in {x \in DOMAIN cfg.rules : cfg.rules[x].required}}
    IN  \A k \in DOMAIN ruleResults :
            ~(ruleResults[k].ruleName \in requiredRuleNames /\ ~ruleResults[k].passed)

\* Math.floor in place of Math.round
ScoreTruncated(ruleResults) ==
    IF Len(ruleResults) > 0
    THEN (PassedCount(ruleResults) * 100 * 10) \div Len(ruleResults)
    ELSE 0

\* A score that counts "no rule failed" as 100 when there is no result.
ScoreVacuouslyFull(ruleResults) ==
    IF Len(ruleResults) > 0
    THEN JsRound(PassedCount(ruleResults) * 100 * 10, Len(ruleResults))
    ELSE 1000

\* score = ruleResults.length > 0 ? (passedRules / ruleResults.length) * 100 : 0
\* Math.round(score * 10) / 10, kept in tenths of a percent
Score(ruleResults) ==
    IF Len(ruleResults) > 0
    THEN JsRound(PassedCount(ruleResults) * 100 * 10, Len(ruleResults))
    ELSE 0

\* Auditor.auditSingleService, after the engine has returned ruleResults
ServiceResult(cfg, service, ruleResults) ==
    [serviceName |-> service.name,
     servicePath |-> service.path,
     results     |-> ruleResults,
     passed      |-> CheckRequiredRules(cfg, ruleResults),
     score       |-> Score(ruleResults)]

\* Rounded to one decimal place, as the score is
PassRateOneDecimal(passedServices, totalServices) ==
    IF totalServices > 0
    THEN JsRound(passedServices * 100 * 10, totalServices) * 10
    ELSE 0

\* passRate = length > 0 ? (passedServices / length) * 100 : 0
\* Math.round(passRate * 100) / 100, kept in hundredths of a percent
PassRate(passedServices, totalServices) ==
    IF totalServices > 0
    THEN JsRound(passedServices * 100 * 100, totalServices)
    ELSE 0

\* A summary that counts as failed every service with a failing rule
\* result, required or not.
CreateReportFailedByScore(list) ==
    LET passedServices == PassedCount(list)
        failedServices == Cardinality({k \in DOMAIN list : list[k].score < 1000})
    IN  <<[services |-> list,
           summary  |-> [totalServices  |-> Len(list),
                         passedServices |-> passedServices,
                         failedServices |-> failedServices,
                         passRate       |-> PassRate(passedServices, Len(list))]]>>

\* Auditor.createReport (the timestamp is left out)
CreateReport(list) ==
    LET passedServices == PassedCount(list)
        failedServices == Len(list) - passedServices
    IN  <<[services |-> list,
           summary  |-> [totalServices  |-> Len(list),
                         passedServices |-> passedServices,
                         failedServices |-> failedServices,
                         passRate       |-> PassRate(passedServices, Len(list))]]>>

\* An empty report that counts "nothing failed" as a full pass rate.
CreateEmptyReportFullRate ==
    <<[services |-> <<>>,
       summary  |-> [totalServices |-> 0, passedServices |-> 0,
                     failedServices |-> 0, passRate |-> 10000]]>>

\* Auditor.createEmptyReport
CreateEmptyReport ==
    <<[services |-> <<>>,
       summary  |-> [totalServices |-> 0, passedServices |-> 0,
                     failedServices |-> 0, passRate |-> 0]]>>

\* Maximum 10 concurrent service audits
ServiceConcurrency == 10

\* The services a scan of the tree finds, in discovery order: a manifest
\* without a usable name gives 'unknown'; the path is the identity.
DiscoveredService(i) ==
    [name |-> IF i % 3 = 2 THEN "unknown" ELSE "api",
     path |-> <<"root", i>>]

AuditInit ==
    /\ config \in [rules : SeqsUpTo(RuleCatalogue, MaxRules), parallel : BOOLEAN]
    /\ onProgress \in {"none", "reports", "throws"}
    /\ pc = "discover"
    /\ services = <<>>
    /\ rules = <<>>
    /\ evaluating = {}
    /\ promises = <<>>
    /\ engineResults = <<>>
    /\ serviceResults = <<>>
    /\ cursor = [service |-> 0, rule |-> 0]
    /\ completed = 0
    /\ progressLog = <<>>
    /\ settled = {}
    /\ report = NoReport
    /\ items = <<>>
    /\ concurrency = 0
    /\ MapIdle
    /\ ScanIdle

\* Step 1: const services = await this.scanner.scan(targetPath)
\* The scan returns the services it found or rejects (ServiceScanError,
\* FileSystemError), and audit rejects with it. The model keeps the number
\* of rule evaluations of one audit (services times rules) within
\* MaxEvaluations.
Discover ==
    /\ pc = "discover"
    /\ \/ \E n \in 0..MaxServices :
            /\ n * Len(config.rules) <= MaxEvaluations
            /\ services' = [i \in 1..n |-> DiscoveredService(i)]
            /\ pc' = "discovered"
       \/ /\ pc' = "failed-discovery"
          /\ UNCHANGED services
    /\ UNCHANGED scanVars
    /\ UNCHANGED <<config, onProgress, rules, evaluating, promises, engineResults,
                   serviceResults, cursor, completed, progressLog, settled, report>>
    /\ UNCHANGED mapVars

\* if (services.length === 0) return this.createEmptyReport();
\* Step 2: const rules = RuleFactory.createRules(this.config.rules)
Instantiate ==
    /\ pc = "discovered"
    /\ IF Len(services) = 0
       THEN /\ report' = CreateEmptyReport
            /\ pc' = "done"
            /\ UNCHANGED rules
       ELSE IF CreateRulesThrows(config.rules)
       THEN /\ pc' = "failed-instantiation"
            /\ UNCHANGED <<rules, report>>
       ELSE /\ rules' = CreateRules(config.rules)
            /\ pc' = "instantiated"
            /\ UNCHANGED report
    /\ UNCHANGED scanVars
    /\ UNCHANGED <<config, onProgress, services, evaluating, promises, engineResults,
                   serviceResults, cursor, completed, progressLog, settled>>
    /\ UNCHANGED mapVars

\* if (onProgress) { onProgress(done, total, service.name) }, service being
\* the i-th discovered service; the log also remembers i.
ProgressCall(done, total, i) ==
    IF onProgress = "none"
    THEN UNCHANGED progressLog
    ELSE progressLog' = Append(progressLog, [completed |-> done, total |-> total,
                                             name |-> services[i].name, service |-> i])

----------------------------------------------------------------------------
(* Sequential mode: auditServicesSequential, auditSingleService, executeRules *)

\* auditSingleService(services[i], rules) up to the first await of
\* executeRules: a new engine, and the first rule's evaluate is invoked.
SeqStartService(i) ==
    /\ cursor' = [service |-> i, rule |-> 1]
    /\ engineResults' = <<>>
    /\ evaluating' = IF Len(rules) > 0 THEN {<<i, 1>>} ELSE {}

DispatchSequential ==
    /\ pc = "instantiated"
    /\ ~config.parallel
    /\ pc' = "evaluating"
    /\ SeqStartService(1)
    /\ UNCHANGED scanVars
    /\ UNCHANGED <<config, onProgress, services, rules, promises, serviceResults,
                   completed, progressLog, settled, report>>
    /\ UNCHANGED mapVars

\* executeRules: the awaited rule.evaluate settles; its result, or the
\* synthetic result of the catch block, is pushed and the loop goes on.
SeqRuleSettle(outcome) ==
    LET i == cursor.service
        j == cursor.rule
    IN  /\ pc = "evaluating"
        /\ ~config.parallel
        /\ evaluating = {<<i, j>>}
        /\ engineResults' = Append(engineResults, TryEvaluate(rules[j], outcome))
        /\ cursor' = [cursor EXCEPT !.rule = AfterRule(j, Len(rules), outcome)]
        /\ evaluating' = IF cursor'.rule <= Len(rules) THEN {<<i, cursor'.rule>>} ELSE {}
        /\ settled' = settled \cup {Settlement(i, j, outcome)}
        /\ UNCHANGED scanVars
        /\ UNCHANGED <<config, onProgress, pc, services, rules, promises, serviceResults,
                       completed, progressLog, report>>
        /\ UNCHANGED mapVars

\* executeRules has returned: the rest of auditSingleService, the push and
\* the progress call of auditServicesSequential, then the next service or,
\* after the last one, createReport.
SeqServiceDone ==
    LET i == cursor.service
        result == ServiceResult(config, services[i], engineResults)
    IN  /\ pc = "evaluating"
        /\ ~config.parallel
        /\ evaluating = {}
        /\ cursor.rule > Len(rules)
        /\ serviceResults' = Append(serviceResults, result)
        /\ ProgressCall(i, Len(services), i)
        /\ IF onProgress = "throws"
           THEN /\ pc' = "failed-evaluation"
                /\ UNCHANGED <<cursor, engineResults, evaluating, report>>
           ELSE IF i < Len(services)
           THEN /\ SeqStartService(i + 1)
                /\ UNCHANGED <<pc, report>>
           ELSE /\ report' = CreateReport(serviceResults')
                /\ pc' = "done"
                /\ UNCHANGED <<cursor, engineResults, evaluating>>
        /\ UNCHANGED scanVars
        /\ UNCHANGED <<config, onProgress, services, rules, promises, completed, settled>>
        /\ UNCHANGED mapVars

----------------------------------------------------------------------------
(* Parallel mode: auditServicesParallel, auditSingleService, executeRulesParallel *)

\* The positions fn was invoked on in this step: for each of them
\* auditSingleService runs up to the await of executeRulesParallel, which
\* invokes every rule's evaluate (this.rules.map(async (rule) => ...)).
NewlyStarted ==
    {i \in DOMAIN fnPromise' :
        /\ fnPromise'[i].state = "pending"
        /\ (i \in DOMAIN fnPromise => fnPromise[i].state = "unstarted")}

StartEngines ==
    /\ evaluating' = evaluating \cup {<<i, j>> : i \in NewlyStarted, j \in DOMAIN rules}
    /\ promises' = [i \in DOMAIN fnPromise' |->
                      IF i \in NewlyStarted THEN [j \in DOMAIN rules |-> Pending]
                      ELSE IF i \in DOMAIN promises THEN promises[i] ELSE <<>>]

DispatchParallel ==
    /\ pc = "instantiated"
    /\ config.parallel
    /\ pc' = "evaluating"
    /\ MapStart(services, ServiceConcurrency)
    /\ StartEngines
    /\ UNCHANGED scanVars
    /\ UNCHANGED <<config, onProgress, services, rules, engineResults, serviceResults,
                   cursor, completed, progressLog, settled, report>>

\* executeRulesParallel: one rule.evaluate settles and its async wrapper
\* resolves with the result or with the synthetic result of the catch block.
ParRuleSettle(i, j, outcome) ==
    /\ config.parallel
    /\ <<i, j>> \in evaluating
    /\ evaluating' = evaluating \ {<<i, j>>}
    /\ promises' = [promises EXCEPT ![i] = SettlePromise(promises[i], j, TryEvaluate(rules[j], outcome))]
    /\ settled' = settled \cup {Settlement(i, j, outcome)}
    /\ UNCHANGED scanVars
    /\ UNCHANGED <<config, onProgress, pc, services, rules, engineResults, serviceResults,
                   cursor, completed, progressLog, report>>
    /\ UNCHANGED mapVars

\* Promise.all(promises) of one engine has resolved: the rest of
\* auditSingleService and of the transform given to mapWithConcurrency
\* (completed++, the progress call, return result).
ParServiceDone(i) ==
    LET ruleResults == [j \in DOMAIN promises[i] |-> promises[i][j].value[1]]
        result == ServiceResult(config, items[i], ruleResults)
    IN  /\ config.parallel
        /\ fnPromise[i].state = "pending"
        /\ \A j \in DOMAIN promises[i] : promises[i][j].state = "fulfilled"
        /\ completed' = completed + 1
        /\ ProgressCall(completed + 1, Len(services), i)
        /\ fnPromise' = [fnPromise EXCEPT ![i] =
                            IF onProgress = "throws" THEN Rejected("onProgress threw")
                            ELSE Fulfilled(result)]
        /\ UNCHANGED <<items, concurrency, index, results, workers, fnCalls, mapPromise>>
        /\ UNCHANGED scanVars
        /\ UNCHANGED <<config, onProgress, pc, services, rules, evaluating, promises,
                       engineResults, serviceResults, cursor, settled, report>>

AuditWorkerResume(w) ==
    /\ config.parallel
    /\ WorkerResume(w)
    /\ StartEngines
    /\ UNCHANGED mapPromise
    /\ UNCHANGED scanVars
    /\ UNCHANGED <<config, onProgress, pc, services, rules, engineResults, serviceResults,
                   cursor, completed, progressLog, settled, report>>

\* The array mapWithConcurrency resolved with
Unwrap(res) == [i \in DOMAIN res |-> res[i][1]]

\* mapWithConcurrency settles: auditServicesParallel returns its results and
\* audit builds the report, or the rejection goes up through audit.
AuditMapSettle ==
    /\ config.parallel
    /\ pc = "evaluating"
    /\ MapSettle
    /\ IF mapPromise'.state = "fulfilled"
       THEN /\ report' = CreateReport(Unwrap(mapPromise'.value[1]))
            /\ pc' = "done"
       ELSE /\ pc' = "failed-evaluation"
            /\ UNCHANGED report
    /\ UNCHANGED scanVars
    /\ UNCHANGED <<config, onProgress, services, rules, evaluating, promises, engineResults,
                   serviceResults, cursor, completed, progressLog, settled>>

Next ==
    \/ Discover
    \/ Instantiate
    \/ DispatchSequential
    \/ \E o \in EvalOutcomes : SeqRuleSettle(o)
    \/ SeqServiceDone
    \/ DispatchParallel
    \/ \E i \in DOMAIN services : \E j \in DOMAIN rules : \E o \in EvalOutcomes : ParRuleSettle(i, j, o)
    \/ \E i \in DOMAIN fnPromise : ParServiceDone(i)
    \/ \E w \in DOMAIN workers : AuditWorkerResume(w)
    \/ AuditMapSettle

Spec == AuditInit /\ [][Next]_vars

----------------------------------------------------------------------------
(* auditSingleService's verdict and score on bounded rule results *)

SupportedCatalogue == {c \in RuleCatalogue : ~CreateRuleThrows(c)}

\* The lists an engine over rs can return: one TryEvaluate per rule
EngineOutputs(rs) ==
    {[j \in DOMAIN rs |-> TryEvaluate(rs[j], o[j])] : o \in [DOMAIN rs -> EvalOutcomes]}

ScoreInit ==
    /\ config \in [rules : SeqsUpTo(SupportedCatalogue, MaxScoreRules), parallel : {FALSE}]
    /\ onProgress = "none"
    /\ pc = "engine-returned"
    /\ services = <<DiscoveredService(1)>>
    /\ rules = CreateRules(config.rules)
    /\ evaluating = {}
    /\ promises = <<>>
    /\ engineResults \in EngineOutputs(rules)
    /\ serviceResults = <<>>
    /\ cursor = [service |-> 1, rule |-> Len(rules) + 1]
    /\ completed = 0
    /\ progressLog = <<>>
    /\ settled = {}
    /\ report = NoReport
    /\ items = <<>>
    /\ concurrency = 0
    /\ MapIdle
    /\ ScanIdle

\* auditSingleService, lines 134-149, on the list the engine returned
ScoreService ==
    /\ pc = "engine-returned"
    /\ serviceResults' = <<ServiceResult(config, services[1], engineResults)>>
    /\ pc' = "service-audited"
    /\ UNCHANGED scanVars
    /\ UNCHANGED <<config, onProgress, services, rules, evaluating, promises, engineResults,
                   cursor, completed, progressLog, settled, report>>
    /\ UNCHANGED mapVars

ScoreNext == ScoreService

ScoreSpec == ScoreInit /\ [][ScoreNext]_vars

----------------------------------------------------------------------------
(* The report's summary on bounded lists of service results *)

OneRequiredRule == <<[name |-> "has-readme", type |-> "file-exists", required |-> TRUE]>>

\* The service results of n services audited against one required rule
AuditedServices(cfg, n) ==
    {[i \in 1..n |-> ServiceResult(cfg, DiscoveredService(i),
                                   <<TryEvaluate(CreateRule(cfg.rules[1]), o[i])>>)] :
        o \in [1..n -> EvalOutcomes]}

ReportInit ==
    /\ config = [rules |-> OneRequiredRule, parallel |-> FALSE]
    /\ onProgress = "none"
    /\ pc = "services-audited"
    /\ \E n \in 0..MaxReportServices :
          /\ services = [i \in 1..n |-> DiscoveredService(i)]
          /\ serviceResults \in AuditedServices(config, n)
    /\ rules = CreateRules(config.rules)
    /\ evaluating = {}
    /\ promises = <<>>
    /\ engineResults = <<>>
    /\ cursor = [service |-> Len(services), rule |-> Len(rules) + 1]
    /\ completed = 0
    /\ progressLog = <<>>
    /\ settled = {}
    /\ report = NoReport
    /\ items = <<>>
    /\ concurrency = 0
    /\ MapIdle
    /\ ScanIdle

\* audit, lines 54-57 and 66: the empty report when nothing was discovered,
\* createReport(serviceResults) otherwise
ReportBuild ==
    /\ pc = "services-audited"
    /\ report' = IF Len(services) = 0 THEN CreateEmptyReport ELSE CreateReport(serviceResults)
    /\ pc' = "done"
    /\ UNCHANGED scanVars
    /\ UNCHANGED <<config, onProgress, services, rules, evaluating, promises, engineResults,
                   serviceResults, cursor, completed, progressLog, settled>>
    /\ UNCHANGED mapVars

ReportNext == ReportBuild

ReportSpec == ReportInit /\ [][ReportNext]_vars

----------------------------------------------------------------------------
(* auditServicesParallel over more services than the pool has workers *)

\* The rules of the services of the pool pass
PoolOutcomes == {o \in EvalOutcomes : o.kind = "return" /\ o.passed}

\* createRules has returned for one rule, and ServiceConcurrency to
\* MaxPoolServices services have been discovered.
PoolInit ==
    /\ config = [rules |-> OneRequiredRule, parallel |-> TRUE]
    /\ onProgress = "none"
    /\ pc = "instantiated"
    /\ \E n \in ServiceConcurrency..MaxPoolServices :
          services = [i \in 1..n |-> DiscoveredService(i)]
    /\ rules = CreateRules(config.rules)
    /\ evaluating = {}
    /\ promises = <<>>
    /\ engineResults = <<>>
    /\ serviceResults = <<>>
    /\ cursor = [service |-> 0, rule |-> 0]
    /\ completed = 0
    /\ progressLog = <<>>
    /\ settled = {}
    /\ report = NoReport
    /\ items = <<>>
    /\ concurrency = 0
    /\ MapIdle
    /\ ScanIdle

\* One task of the event loop: the I/O of rule j on service i completes and
\* the continuations it makes ready run before the next task is taken up.
\* The rule's wrapper resolves its promise; if that was the last pending
\* promise of the engine, Promise.all resolves, auditSingleService and the
\* transform finish (completed++, the progress call, return result), the
\* worker that awaited the transform stores the result and claims the next
\* service, whose engine invokes every rule's evaluate.
PoolTask(i, j, outcome) ==
    LET ps == SettlePromise(promises[i], j, TryEvaluate(rules[j], outcome))
        engineDone == \A k \in DOMAIN ps : ps[k].state = "fulfilled"
        result == ServiceResult(config, items[i], [k \in DOMAIN ps |-> ps[k].value[1]])
        w == CHOOSE v \in DOMAIN workers :
                 workers[v].state = "awaiting" /\ workers[v].currentIndex = i - 1
        st == WorkerLoop([index |-> index, workers |-> workers,
                          fnPromise |-> [fnPromise EXCEPT ![i] = Fulfilled(result)],
                          fnCalls |-> fnCalls],
                         w, Len(items))
        started == IF index < Len(items) THEN {index + 1} ELSE {}
    IN  /\ config.parallel
        /\ onProgress # "throws"
        /\ <<i, j>> \in evaluating
        /\ settled' = settled \cup {Settlement(i, j, outcome)}
        /\ IF engineDone
           THEN /\ completed' = completed + 1
                /\ ProgressCall(completed + 1, Len(services), i)
                /\ results' = StoreResult(results, i - 1, result)
                /\ index' = st.index
                /\ workers' = st.workers
                /\ fnPromise' = st.fnPromise
                /\ fnCalls' = st.fnCalls
                /\ evaluating' = (evaluating \ {<<i, j>>})
                                     \cup {<<k, r>> : k \in started, r \in DOMAIN rules}
                /\ promises' = [k \in DOMAIN promises |->
                                  IF k = i THEN ps
                                  ELSE IF k \in started THEN [r \in DOMAIN rules |-> Pending]
                                  ELSE promises[k]]
           ELSE /\ evaluating' = evaluating \ {<<i, j>>}
                /\ promises' = [promises EXCEPT ![i] = ps]
                /\ UNCHANGED <<completed, progressLog, results, index, workers, fnPromise, fnCalls>>
        /\ UNCHANGED <<items, concurrency, mapPromise>>
        /\ UNCHANGED scanVars
        /\ UNCHANGED <<config, onProgress, pc, services, rules, engineResults, serviceResults,
                       cursor, report>>

PoolNext ==
    \/ DispatchParallel
    \/ \E i \in DOMAIN services : \E j \in DOMAIN rules : \E o \in PoolOutcomes : PoolTask(i, j, o)
    \/ AuditMapSettle

PoolSpec == PoolInit /\ [][PoolNext]_vars

----------------------------------------------------------------------------
(* The audit as a function of the rule outcomes, run twice: with the        *)
(* outcomes as given, and with one of them replaced by a thrown exception   *)

\* executeRules as a function of the outcomes o[j] of the rules: the loop
\* from rule j on, acc being the results pushed so far
RECURSIVE ExecuteRulesFrom(_, _, _, _)
ExecuteRulesFrom(rs, o, j, acc) ==
    IF j > Len(rs) THEN acc
    ELSE ExecuteRulesFrom(rs, o, AfterRule(j, Len(rs), o[j]),
                          Append(acc, TryEvaluate(rs[j], o[j])))

ExecuteRules(rs, o) == ExecuteRulesFrom(rs, o, 1, <<>>)

\* executeRulesParallel as a function of the outcomes: every wrapper
\* resolves its entry of the promises array, Promise.all gives the values
RECURSIVE SettleAll(_, _, _, _)
SettleAll(ps, rs, o, j) ==
    IF j > Len(rs) THEN ps
    ELSE SettleAll(SettlePromise(ps, j, TryEvaluate(rs[j], o[j])), rs, o, j + 1)

ExecuteRulesParallel(rs, o) ==
    LET ps == SettleAll([j \in DOMAIN rs |-> Pending], rs, o, 1)
    IN  [j \in DOMAIN ps |-> ps[j].value[1]]

\* auditServicesSequential / auditServicesParallel as a function of the
\* outcomes o[i][j] of rule j on service i
AuditServices(cfg, svcs, rs, o) ==
    [i \in DOMAIN svcs |->
        ServiceResult(cfg, svcs[i],
                      IF cfg.parallel THEN ExecuteRulesParallel(rs, o[i])
                      ELSE ExecuteRules(rs, o[i]))]

\* error thrown by rule.evaluate in place of its result
Thrown == [kind |-> "throw", passed |-> FALSE, cause |-> "EACCES"]

\* The outcomes recorded in settled, and the same with the outcome of the
\* rule and service under cursor replaced by a thrown exception
GivenOutcomes == [i \in DOMAIN services |-> [j \in DOMAIN rules |-> OutcomeOfEvaluation(i, j)]]
ReplacedOutcomes == [GivenOutcomes EXCEPT ![cursor.service][cursor.rule] = Thrown]

\* One to MaxServices services, supported rules, an outcome for every rule
\* on every service, and one rule on one service that returned a result.
FrameInit ==
    /\ config \in [rules : SeqsUpTo(SupportedCatalogue, MaxRules) \ {<<>>}, parallel : BOOLEAN]
    /\ onProgress = "none"
    /\ pc = "outcomes-fixed"
    /\ \E n \in 1..MaxServices :
          /\ n * Len(config.rules) <= MaxEvaluations
          /\ services = [i \in 1..n |-> DiscoveredService(i)]
    /\ rules = CreateRules(config.rules)
    /\ evaluating = {}
    /\ promises = <<>>
    /\ engineResults = <<>>
    /\ serviceResults = <<>>
    /\ \E o \in [DOMAIN services -> [DOMAIN rules -> EvalOutcomes]] :
          settled = {[service |-> i, rule |-> j, outcome |-> o[i][j], overtook |-> FALSE] :
                        i \in DOMAIN services, j \in DOMAIN rules}
    /\ cursor \in [service : DOMAIN services, rule : DOMAIN rules]
    /\ OutcomeOfEvaluation(cursor.service, cursor.rule).kind = "return"
    /\ completed = 0
    /\ progressLog = <<>>
    /\ report = NoReport
    /\ items = <<>>
    /\ concurrency = 0
    /\ MapIdle
    /\ ScanIdle

\* The two audits: serviceResults is what audit gives createReport with the
\* outcomes as given, report is what audit returns with the replaced outcome.
FrameAudit ==
    /\ pc = "outcomes-fixed"
    /\ serviceResults' = AuditServices(config, services, rules, GivenOutcomes)
    /\ report' = CreateReport(AuditServices(config, services, rules, ReplacedOutcomes))
    /\ pc' = "audited-twice"
    /\ UNCHANGED scanVars
    /\ UNCHANGED <<config, onProgress, services, rules, evaluating, promises, engineResults,
                   cursor, completed, progressLog, settled>>
    /\ UNCHANGED mapVars

FrameNext == FrameAudit

FrameSpec == FrameInit /\ [][FrameNext]_vars

----------------------------------------------------------------------------
(* CoverageRule.evaluate: src/rules/implementations/coverage-rule.ts        *)
(*                                                                          *)
(* The percentages of a coverage summary are decimal numerals with two      *)
(* fraction digits, kept here as integers in hundredths. JSON.parse turns   *)
(* each into a Number, an IEEE 754 double, and the rule adds and compares   *)
(* Numbers. A Number is kept as the sequence of its binary digits, most     *)
(* significant first: IntegerBits digits before the point and FractionBits  *)
(* after it, enough to hold every double between 0.04 and 511 exactly.      *)

\* The precision of a Number: 53 binary digits
SignificandBits == 53
IntegerBits == 9
FractionBits == 60
Width == IntegerBits + FractionBits

\* 2^n for n up to 30
Pow2(n) ==
    <<1, 2, 4, 8, 16, 32, 64, 128, 256, 512, 1024, 2048, 4096, 8192, 16384, 32768,
      65536, 131072, 262144, 524288, 1048576, 2097152, 4194304, 8388608, 16777216,
      33554432, 67108864, 134217728, 268435456, 536870912, 1073741824>>[n + 1]

\* 2^n modulo den for n up to 60
Pow2Mod(n, den) == ((Pow2(n \div 2) % den) * (Pow2(n - n \div 2) % den)) % den

\* The binary digits of the integer q < 2^IntegerBits
WholeDigits(q) == [i \in 1..IntegerBits |-> (q \div Pow2(IntegerBits - i)) % 2]

\* The first k binary digits of the fraction r / den (long division: the
\* digit at position i is that of the remainder left by the i - 1 before
\* it), and the remainder after them
FractionDigits(r, den, k) ==
    [i \in 1..k |-> (2 * ((r * Pow2Mod(i - 1, den)) % den)) \div den]

FractionRest(r, den, k) == (r * Pow2Mod(k, den)) % den

\* digits + 1 unit at position at: the carry runs through the ones that
\* end at that position and sets the zero before them
AddUnit(digits, at) ==
    LET zeros == {i \in 1..at : digits[i] = 0}
        stop  == CHOOSE i \in zeros : \A j \in zeros : j <= i
    IN  [i \in 1..Width |-> IF i = stop THEN 1
                            ELSE IF i > stop /\ i <= at THEN 0
                            ELSE digits[i]]

\* The value of an expression, computed once
Only(S) == CHOOSE v \in S : TRUE

\* The position of the first non-zero digit, 0 when there is none
Lead(digits) ==
    LET ones == {i \in 1..Width : digits[i] = 1}
    IN  IF ones = {} THEN 0 ELSE CHOOSE i \in ones : \A j \in ones : i <= j

\* Round to nearest, ties to even, at SignificandBits significant digits:
\* what every arithmetic operation on Numbers, and the reading of a
\* numeral, does to the exact result. inexact says that the exact value has
\* non-zero digits beyond the ones given.
RoundFrom(digits, lead, inexact) ==
    LET last == lead + SignificandBits - 1
        kept == [i \in 1..Width |-> IF i <= last THEN digits[i] ELSE 0]
        rest == inexact \/ \E i \in (last + 2)..Width : digits[i] = 1
        up   == digits[last + 1] = 1 /\ (rest \/ digits[last] = 1)
    IN  IF lead = 0 \/ last >= Width THEN digits
        ELSE IF up THEN AddUnit(kept, last) ELSE kept

RoundToDouble(digits, inexact) ==
    Only({RoundFrom(d, lead, inexact) : d \in {digits}, lead \in {Lead(digits)}})

\* JSON.parse of the numeral n / 100, and the Number literal of a threshold
ParseNumber(n) ==
    RoundToDouble(WholeDigits(n \div 100) \o FractionDigits(n % 100, 100, FractionBits),
                  FractionRest(n % 100, 100, FractionBits) # 0)

\* The carry into position i of the sum of two digit sequences: some lower
\* position holds two ones and every position between has at least one
CarryInto(a, b, i) ==
    \E j \in (i + 1)..Width :
        /\ a[j] = 1
        /\ b[j] = 1
        /\ \A k \in (i + 1)..(j - 1) : a[k] + b[k] >= 1

\* The exact sum of two digit sequences
ExactSum(a, b) ==
    [i \in 1..Width |-> (a[i] + b[i] + IF CarryInto(a, b, i) THEN 1 ELSE 0) % 2]

\* a + b on Numbers
NumberAdd(a, b) ==
    Only({RoundToDouble(sum, FALSE) : sum \in {ExactSum(x, y) : x \in {a}, y \in {b}}})

\* a / 4 on Numbers: exact, the exponent decreases by two
NumberQuarter(a) == Only({<<0, 0>> \o SubSeq(x, 1, Width - 2) : x \in {a}})

\* a >= b on Numbers
NumberAtLeast(a, b) ==
    \E x \in {a}, y \in {b} :
        \/ x = y
        \/ \E i \in 1..Width : x[i] > y[i] /\ \A j \in 1..(i - 1) : x[j] = y[j]

\* const avgCoverage = (lines.pct + statements.pct + functions.pct + branches.pct) / 4
AvgCoverage(total) ==
    NumberQuarter(NumberAdd(NumberAdd(NumberAdd(ParseNumber(total.lines),
                                                ParseNumber(total.statements)),
                                      ParseNumber(total.functions)),
                            ParseNumber(total.branches)))

\* CoverageRule.evaluate(service): summary is <<>> when the file is missing
\* or is not JSON (the catch block), <<total>> otherwise
CoverageEvaluate(rule, summary) ==
    IF summary = <<>>
    THEN [ruleName |-> rule.config.name,
          passed   |-> FALSE,
          message  |-> "Coverage report not found or invalid"]
    ELSE LET meets == NumberAtLeast(AvgCoverage(summary[1]), ParseNumber(rule.config.threshold))
         IN  [ruleName |-> rule.config.name,
              passed   |-> meets,
              message  |-> IF meets THEN "meets threshold" ELSE "is below threshold"]

\* The percentages the summaries are written from, in hundredths
PctValues == {3210, 3070, 3490, 3030, 10000, 9000, 8000, 7000}

\* The thresholds of the configurations, in hundredths
ThresholdValues == {3200, 8500}

CoverageSummaries ==
    {<<>>} \cup {<<t>> : t \in [lines : PctValues, statements : PctValues,
                                functions : PctValues, branches : PctValues]}

CoverageInit ==
    /\ config \in {[rules |-> <<[name |-> "min-coverage", type |-> "coverage",
                                 threshold |-> t, required |-> TRUE]>>,
                    parallel |-> FALSE] : t \in ThresholdValues}
    /\ tree \in {[root |-> "directory", files |-> {}, coverage |-> s] : s \in CoverageSummaries}
    /\ options = ScannerOptions(<<>>)
    /\ packageFiles = <<>>
    /\ parsing = <<>>
    /\ scanPromise = Unstarted
    /\ onProgress = "none"
    /\ pc = "evaluating"
    /\ services = <<DiscoveredService(1)>>
    /\ rules = CreateRules(config.rules)
    /\ evaluating = {<<1, 1>>}
    /\ promises = <<>>
    /\ engineResults = <<>>
    /\ serviceResults = <<>>
    /\ cursor = [service |-> 1, rule |-> 1]
    /\ completed = 0
    /\ progressLog = <<>>
    /\ settled = {}
    /\ report = NoReport
    /\ items = <<>>
    /\ concurrency = 0
    /\ MapIdle

\* const result = await rule.evaluate(service) of the coverage rule
CoverageSettle ==
    /\ pc = "evaluating"
    /\ engineResults' = <<CoverageEvaluate(rules[1], tree.coverage)>>
    /\ evaluating' = {}
    /\ pc' = "evaluated"
    /\ UNCHANGED scanVars
    /\ UNCHANGED <<config, onProgress, services, rules, promises, serviceResults,
                   cursor, completed, progressLog, settled, report>>
    /\ UNCHANGED mapVars

CoverageNext == CoverageSettle

CoverageSpec == CoverageInit /\ [][CoverageNext]_vars

----------------------------------------------------------------------------
(* batchProcess: dist/utils/concurrency.js, driven as in the unit tests.    *)
(* concurrency holds the batchSize argument, index the loop variable i,     *)
(* results the results list and mapPromise the promise batchProcess         *)
(* returned.                                                                *)

\* A slice that takes every remaining item.
BatchSliceToEnd(its, i, batchSize) == (i + 1)..Len(its)

\* items.slice(i, i + batchSize): the positions (1-based) of the batch
BatchSlice(its, i, batchSize) == (i + 1)..Min(i + batchSize, Len(its))

\* The loop from its test i < items.length: the next batch is mapped, fn is
\* invoked on each of its items in order, and the function awaits the
\* Promise.all of them; after the last batch it returns results.
BatchLoop(res, i, started) ==
    LET batch == BatchSlice(items, i, concurrency)
    IN  /\ results' = res
        /\ index' = i
        /\ IF i < Len(items)
           THEN /\ fnPromise' = [k \in 1..Len(items) |->
                                    IF k \in batch THEN Pending ELSE started[k]]
                /\ fnCalls' = fnCalls \o [k \in 1..Cardinality(batch) |-> i + k - 1]
                /\ mapPromise' = Pending
           ELSE /\ fnPromise' = started
                /\ fnCalls' = fnCalls
                /\ mapPromise' = Fulfilled(res)

BatchInit ==
    /\ items \in SeqsUpTo(ItemValues, MaxItems)
    /\ concurrency \in 1..MaxConcurrency
    /\ MapIdle
    /\ AuditIdle

\* batchProcess(items, fn, batchSize) up to its first await
BatchCall ==
    /\ mapPromise.state = "unstarted"
    /\ BatchLoop(<<>>, 0, [k \in 1..Len(items) |-> Unstarted])
    /\ UNCHANGED <<items, concurrency, workers>>
    /\ UNCHANGED auditVars

\* The await of Promise.all(batch.map(...)) resumes: with the batch's
\* values, which are pushed before the loop goes on, or by throwing the
\* rejection of one of the batch's transforms.
BatchResume ==
    LET batch == BatchSlice(items, index, concurrency)
    IN  /\ mapPromise.state = "pending"
        /\ \/ /\ \A k \in batch : fnPromise[k].state = "fulfilled"
              /\ BatchLoop(results \o [k \in 1..Cardinality(batch) |->
                                          fnPromise[index + k].value[1]],
                           index + concurrency, fnPromise)
           \/ \E k \in batch :
                 /\ fnPromise[k].state = "rejected"
                 /\ mapPromise' = Rejected(fnPromise[k].value[1])
                 /\ UNCHANGED <<index, results, fnPromise, fnCalls>>
        /\ UNCHANGED <<items, concurrency, workers>>
        /\ UNCHANGED auditVars

BatchNext ==
    \/ BatchCall
    \/ \E i \in DOMAIN fnPromise : FnSettle(i)
    \/ BatchResume

BatchSpec == BatchInit /\ [][BatchNext]_vars

----------------------------------------------------------------------------
(* mapWithConcurrency over a transform that never throws and that never     *)
(* settles on one value of item:                                            *)
(*   async (item) => item === HangingItem ? new Promise(() => {}) : item * 2 *)

HangingItem == 2

Hangs(i) == items[i] = HangingItem

\* The transform of an item that does not hang returns its value
LiveFnSettle(i) ==
    /\ ~Hangs(i)
    /\ fnPromise[i].state = "pending"
    /\ fnPromise' = [fnPromise EXCEPT ![i] = Fulfilled(Transform(items[i], i - 1))]
    /\ UNCHANGED <<items, concurrency, index, results, workers, fnCalls, mapPromise>>
    /\ UNCHANGED auditVars

MapLiveNext ==
    \/ MapCall
    \/ \E i \in DOMAIN fnPromise : LiveFnSettle(i)
    \/ \E w \in DOMAIN workers : MapWorkerResume(w)
    \/ MapReturn

\* Every transform that does not hang completes, and the event loop runs
\* every continuation that is ready.
MapLiveFairness ==
    /\ MapFairness
    /\ \A i \in 1..MaxItems : WF_vars(i \in DOMAIN fnPromise /\ LiveFnSettle(i))

MapLiveSpec == MapInit /\ [][MapLiveNext]_vars /\ MapLiveFairness

----------------------------------------------------------------------------
(* Properties of mapWithConcurrency, checked under MapSpec *)

\* The transform invocations started and not yet completed
InFlight == Cardinality({i \in DOMAIN fnPromise : fnPromise[i].state = "pending"})

\* C1: at every moment of mapWithConcurrency(items, fn, K), K >= 1, the
\* number of transform invocations in flight is at most K and at most
\* min(K, N).
C1_BoundedInFlight ==
    /\ InFlight <= concurrency
    /\ InFlight <= Min(concurrency, Len(items))

\* K transforms in flight with more than K items, after a worker has come
\* back for a further item.
C1_Witness ==
    /\ concurrency >= 2
    /\ Len(items) > concurrency
    /\ index > concurrency
    /\ InFlight = concurrency

\* C2: when mapWithConcurrency resolves, the list it resolves with has N
\* entries and entry i is the transform's result for items[i].
C2_ResultsInInputOrder ==
    mapPromise.state = "fulfilled" =>
        LET returned == mapPromise.value[1]
        IN  /\ DOMAIN returned = 1..Len(items)
            /\ \A i \in 1..Len(items) : returned[i] = <<Transform(items[i], i - 1)>>

\* Resolved with three items of different values and two workers, the first
\* worker having been held by item 0 while the second took items 1 and 2:
\* item 0 completed after item 1.
C2_Witness ==
    /\ mapPromise.state = "fulfilled"
    /\ Len(items) = 3
    /\ concurrency = 2
    /\ items[1] # items[2]
    /\ workers[1].currentIndex = 0
    /\ workers[2].currentIndex = 2

\* C3: the shared index hands every position to one worker only: no
\* position has its transform invoked twice, two waiting workers never hold
\* the same position, and when the mapping resolves every position has been
\* invoked.
C3_EachItemOnce ==
    /\ \A a, b \in DOMAIN fnCalls : a # b => fnCalls[a] # fnCalls[b]
    /\ \A v, w \in DOMAIN workers :
          (v # w /\ workers[v].state = "awaiting" /\ workers[w].state = "awaiting")
              => workers[v].currentIndex # workers[w].currentIndex
    /\ mapPromise.state = "fulfilled" =>
          {fnCalls[a] : a \in DOMAIN fnCalls} = 0..(Len(items) - 1)

\* Resolved after two or more workers shared more items than workers.
C3_Witness ==
    /\ mapPromise.state = "fulfilled"
    /\ concurrency >= 2
    /\ Len(items) > concurrency
    /\ Len(fnCalls) = Len(items)

\* Some transform invocation has failed
SomeTransformFailed == \E i \in DOMAIN fnPromise : fnPromise[i].state = "rejected"

\* C13: once a transform invocation of mapWithConcurrency has failed, the
\* mapping call fails: it never resolves with a result list, the error it
\* rejects with is the error of a failed transform, and it does reject,
\* whichever item failed and whatever the other transforms do.
C13_TransformFailureFailsTheMapping ==
    /\ [](mapPromise.state = "fulfilled" => ~SomeTransformFailed)
    /\ [](mapPromise.state = "rejected" =>
            \E i \in DOMAIN fnPromise :
                /\ fnPromise[i] = Rejected(TestError(i - 1))
                /\ mapPromise.value = <<TestError(i - 1)>>)
    /\ [](Cardinality({i \in DOMAIN fnPromise : fnPromise[i].state = "rejected"}) = 1
            => mapPromise.state \in {"pending", "rejected"})
    /\ (SomeTransformFailed ~> mapPromise.state = "rejected")

\* The mapping rejected with the error of the last of three items, the
\* results of the first two already stored and never returned.
C13_Witness ==
    /\ mapPromise.state = "rejected"
    /\ Len(items) = 3
    /\ concurrency = 2
    /\ mapPromise.value = <<TestError(2)>>
    /\ results[1] # <<>>
    /\ results[2] # <<>>

----------------------------------------------------------------------------
(* Properties of the auditor and of the rule engine *)

Abs(x) == IF x < 0 THEN -x ELSE x

\* What the settled evaluation of rule j on service i did
OutcomeOf(i, j) == OutcomeOfEvaluation(i, j)

\* r is the result of this evaluation of this rule: the rule's own result,
\* or the engine's synthetic failure when the evaluation threw.
Belongs(r, rule, outcome) ==
    /\ r.ruleName = rule.config.name
    /\ IF outcome.kind = "throw"
       THEN /\ r.passed = FALSE
            /\ r.message = <<"Rule execution failed: ", outcome.cause>>
       ELSE /\ r.passed = outcome.passed
            /\ r.message[1] = rule.config.type

\* C4: services[i] of a returned report is the result of the i-th
\* discovered service, in sequential and in parallel mode.
C4_ServicesInDiscoveryOrder ==
    report # NoReport =>
        LET listed == report[1].services
        IN  /\ DOMAIN listed = DOMAIN services
            /\ \A i \in DOMAIN services :
                  /\ listed[i].serviceName = services[i].name
                  /\ listed[i].servicePath = services[i].path

\* A report of a parallel audit of two services in which the second
\* service's audit completed first.
C4_Witness ==
    /\ pc = "done"
    /\ config.parallel
    /\ Len(services) = 2
    /\ services[1].name # services[2].name
    /\ Len(progressLog) = 2
    /\ progressLog[1].name = services[2].name

\* C5: the list executeRulesParallel resolves with has one result per
\* registered rule, the result at position j being the one of rule j; a
\* rule that threw has at its position the failing result carrying its name.
C5_ParallelRuleResults ==
    config.parallel =>
        \A i \in DOMAIN promises :
            (/\ fnPromise[i].state # "unstarted"
             /\ \A j \in DOMAIN promises[i] : promises[i][j].state = "fulfilled")
            => LET returned == [j \in DOMAIN promises[i] |-> promises[i][j].value[1]]
               IN  /\ DOMAIN returned = DOMAIN rules
                   /\ \A j \in DOMAIN rules : Belongs(returned[j], rules[j], OutcomeOf(i, j))
                   /\ fnPromise[i].state = "fulfilled"
                         => fnPromise[i].value[1].results = returned

\* A service audited in parallel mode against two rules: the second rule
\* settled while the first was still being evaluated, and the first threw.
C5_Witness ==
    /\ config.parallel
    /\ Len(rules) = 2
    /\ \E i \in DOMAIN fnPromise :
          /\ fnPromise[i].state = "fulfilled"
          /\ \E x \in settled : x.service = i /\ x.rule = 2 /\ x.overtook
          /\ \E y \in settled : y.service = i /\ y.rule = 1 /\ y.outcome.kind = "throw"

\* C6: in executeRules a rule that throws gets the result {its name, passed
\* false, 'Rule execution failed: <cause>'}, the next rule is evaluated all
\* the same, and the list returned has one result per rule in registration
\* order.
C6_SequentialRuleResults ==
    (~config.parallel /\ pc = "evaluating") =>
        /\ \A j \in DOMAIN engineResults :
              Belongs(engineResults[j], rules[j], OutcomeOf(cursor.service, j))
        /\ Len(engineResults) < Len(rules)
              => evaluating = {<<cursor.service, Len(engineResults) + 1>>}
        /\ evaluating = {} => Len(engineResults) = Len(rules)
        /\ \A i \in DOMAIN serviceResults :
              /\ DOMAIN serviceResults[i].results = DOMAIN rules
              /\ \A j \in DOMAIN rules :
                    Belongs(serviceResults[i].results[j], rules[j], OutcomeOf(i, j))

\* executeRules has returned for two rules, the first of which threw and
\* the second of which passed.
C6_Witness ==
    /\ ~config.parallel
    /\ pc = "evaluating"
    /\ evaluating = {}
    /\ Len(rules) = 2
    /\ Len(engineResults) = 2
    /\ engineResults[1].message[1] = "Rule execution failed: "
    /\ engineResults[2].passed

\* The service results audit has produced so far, in either mode
ProducedServiceResults ==
    {serviceResults[i] : i \in DOMAIN serviceResults}
        \cup {fnPromise[i].value[1] : i \in {k \in DOMAIN fnPromise : fnPromise[k].state = "fulfilled"}}

\* C7: a service result has passed = false iff the result of some rule
\* configured required:true has passed = false; the failing result of a
\* rule configured required:false does not make passed false.
C7_PassedIffNoRequiredRuleFailed ==
    pc # "unused" =>
        \A sr \in ProducedServiceResults :
            sr.passed = ~(\E j \in DOMAIN sr.results :
                             config.rules[j].required /\ ~sr.results[j].passed)

\* C8: with at least one rule result, score is 100 * passed / total to the
\* nearest tenth, over all results, required or not, and lies in [0, 100]
\* (score is kept in tenths: 667 is 66.7).
C8_ScoreRoundedToTenth ==
    \A k \in DOMAIN serviceResults :
        LET sr == serviceResults[k]
            total == Len(sr.results)
            passedCount == Cardinality({j \in DOMAIN sr.results : sr.results[j].passed})
        IN  total > 0 =>
              /\ sr.score >= 0
              /\ sr.score <= 1000
              /\ 2 * Abs(sr.score * total - 1000 * passedCount) <= total
              /\ (passedCount = 2 /\ total = 3) => sr.score = 667
              /\ (passedCount = 1 /\ total = 2) => sr.score = 500

\* Two of three results passed, the failing one being an optional rule's.
C8_Witness ==
    /\ Len(serviceResults) = 1
    /\ Len(serviceResults[1].results) = 3
    /\ serviceResults[1].score = 667
    /\ serviceResults[1].passed
    /\ \E j \in 1..3 : ~serviceResults[1].results[j].passed /\ ~config.rules[j].required

\* C9: summary.passRate is 100 * passedServices / totalServices to the
\* nearest hundredth, and 0 when totalServices is 0 (passRate is kept in
\* hundredths: 3333 is 33.33).
C9_PassRateRoundedToHundredth ==
    report # NoReport =>
        LET summary == report[1].summary
        IN  /\ summary.totalServices = 0 => summary.passRate = 0
            /\ summary.totalServices > 0 =>
                  2 * Abs(summary.passRate * summary.totalServices
                          - 10000 * summary.passedServices) <= summary.totalServices
            /\ summary.totalServices = Len(report[1].services)
            /\ summary.passedServices =
                  Cardinality({i \in DOMAIN report[1].services : report[1].services[i].passed})

\* One of three services passed: 33.33
C9_Witness ==
    /\ report # NoReport
    /\ report[1].summary.totalServices = 3
    /\ report[1].summary.passedServices = 1
    /\ report[1].summary.passRate = 3333

AllSettled(i) == \A j \in DOMAIN rules : \E x \in settled : x.service = i /\ x.rule = j

\* The ServiceAuditResult of service i that the outcomes of its rule
\* evaluations determine, whatever the mode
OutcomeDetermined(i) ==
    ServiceResult([rules |-> config.rules, parallel |-> FALSE], services[i],
                  [j \in DOMAIN rules |-> TryEvaluate(rules[j], OutcomeOf(i, j))])

\* C14: the services list audit returns is determined by the discovered
\* services, the rule list and the outcome of every rule on every service:
\* with these fixed, parallel=false and parallel=true return the same
\* ServiceAuditResult at each index, the same RuleResult at each position
\* and the same summary.
C14_ModesReturnTheSameReport ==
    (pc = "done" /\ Len(services) >= 1) =>
        /\ \A i \in DOMAIN services : AllSettled(i)
        /\ report = CreateReport([i \in DOMAIN services |-> OutcomeDetermined(i)])

\* A parallel report of two services and two rules in which the second
\* service completed first and, in some service, the second rule settled
\* before the first, with outcomes that differ between the services.
C14_Witness ==
    /\ pc = "done"
    /\ config.parallel
    /\ Len(services) = 2
    /\ Len(rules) = 2
    /\ Len(progressLog) = 2
    /\ progressLog[1].service = 2
    /\ \E x \in settled : x.overtook
    /\ \E x \in settled : x.outcome.kind = "throw"
    /\ report[1].services[1].results # report[1].services[2].results

\* C15: with a callback supplied and N >= 1 services discovered, the k-th
\* invocation of the callback reports (k, N, name), name being the name of
\* a service whose audit has completed and that was not reported before,
\* and by the end of the invocation the callback has been invoked N times.
C15_ProgressReportedOncePerService ==
    (onProgress # "none" /\ Len(services) >= 1) =>
        /\ \A k \in DOMAIN progressLog :
              /\ progressLog[k].completed = k
              /\ progressLog[k].total = Len(services)
              /\ progressLog[k].name = services[progressLog[k].service].name
              /\ AllSettled(progressLog[k].service)
              /\ \A m \in DOMAIN progressLog : m # k => progressLog[m].service # progressLog[k].service
        /\ (pc \in {"done", "failed-evaluation"} /\ ~ENABLED Next)
              => Len(progressLog) = Len(services)

\* C16: with parallel = true at most 10 auditSingleService invocations are
\* in flight at any moment, however many services were discovered.
C16_AtMostTenServiceAuditsInFlight ==
    config.parallel =>
        /\ InFlight <= 10
        /\ Cardinality({w \in DOMAIN workers : workers[w].state = "awaiting"}) <= 10
        /\ Len(workers) <= 10

\* Ten service audits in flight with more than ten services discovered,
\* after a worker has come back for the eleventh.
C16_Witness ==
    /\ config.parallel
    /\ Len(services) > 10
    /\ index > 10
    /\ InFlight = 10

----------------------------------------------------------------------------
(* Stages of an audit invocation *)

\* The scan has returned and audit has gone past createRules (or past the
\* early return that precedes it).
PastInstantiation == pc \in {"instantiated", "evaluating", "failed-instantiation",
                             "failed-evaluation", "done"}

\* No rule.evaluate has been invoked, no service audit started, no progress
\* reported.
NothingEvaluated ==
    /\ evaluating = {}
    /\ settled = {}
    /\ fnCalls = <<>>
    /\ engineResults = <<>>
    /\ serviceResults = <<>>
    /\ progressLog = <<>>

\* C11 as stated: with a rule of an unknown kind in the configuration,
\* audit aborts with the instantiation error before any service is
\* evaluated and returns no report, whatever a successful discovery found.
C11_UnknownKindAbortsOnEveryRoot ==
    ((\E k \in DOMAIN config.rules : UnknownKind(config.rules[k])) /\ PastInstantiation) =>
        /\ pc = "failed-instantiation"
        /\ report = NoReport
        /\ NothingEvaluated

\* C11 amended: with a rule of an unknown kind in the configuration and at
\* least one service discovered, audit aborts at createRules with no rule
\* instance kept, before any service is evaluated, and returns no report;
\* with no service discovered it returns the empty report without reaching
\* createRules.
C11_UnknownKindAbortsWhenServicesFound ==
    ((\E k \in DOMAIN config.rules : UnknownKind(config.rules[k])) /\ PastInstantiation) =>
        /\ NothingEvaluated
        /\ rules = <<>>
        /\ IF Len(services) >= 1
           THEN pc = "failed-instantiation" /\ report = NoReport
           ELSE pc = "done" /\ report # NoReport /\ report[1].services = <<>>

\* A parallel audit of two services aborted at createRules by an unknown
\* kind that follows a supported rule in the configuration.
C11_Witness ==
    /\ pc = "failed-instantiation"
    /\ config.parallel
    /\ Len(services) = 2
    /\ Len(config.rules) = 2
    /\ ~CreateRuleThrows(config.rules[1])
    /\ UnknownKind(config.rules[2])

\* C12: when discovery finds no service, audit returns a report with an
\* empty services list and totalServices, passedServices, failedServices and
\* passRate all 0, without instantiating or evaluating any rule; discovery
\* having returned, the return of that report is the step audit takes next.
C12_ZeroServicesEmptyReport ==
    (pc \notin {"discover", "failed-discovery"} /\ Len(services) = 0) =>
        /\ pc \in {"discovered", "done"}
        /\ pc = "discovered" => ENABLED Instantiate
        /\ NothingEvaluated
        /\ rules = <<>>
        /\ pc = "done" =>
              /\ report # NoReport
              /\ report[1].services = <<>>
              /\ report[1].summary.totalServices = 0
              /\ report[1].summary.passedServices = 0
              /\ report[1].summary.failedServices = 0
              /\ report[1].summary.passRate = 0

\* The empty report returned with rules configured and a callback given.
C12_Witness ==
    /\ pc = "done"
    /\ services = <<>>
    /\ Len(config.rules) >= 2
    /\ onProgress = "reports"
    /\ report # NoReport
    /\ report[1].summary.totalServices = 0

\* C17: with the outcome of one rule on one service replaced by a thrown
\* exception, audit returns the same services list except for that rule's
\* slot of that service, which holds the synthetic failure under the rule's
\* name, and for that service's score and passed; in both modes.
C17_ThrownExceptionChangesOneSlot ==
    pc = "audited-twice" =>
        LET given == serviceResults
            replaced == report[1].services
        IN  /\ DOMAIN replaced = DOMAIN given
            /\ \A i \in DOMAIN given :
                  /\ replaced[i].serviceName = given[i].serviceName
                  /\ replaced[i].servicePath = given[i].servicePath
                  /\ DOMAIN replaced[i].results = DOMAIN given[i].results
                  /\ DOMAIN given[i].results = DOMAIN rules
                  /\ i # cursor.service => replaced[i] = given[i]
                  /\ \A j \in DOMAIN given[i].results :
                        (i # cursor.service \/ j # cursor.rule)
                            => replaced[i].results[j] = given[i].results[j]
            /\ LET slot == replaced[cursor.service].results[cursor.rule]
               IN  /\ slot.ruleName = config.rules[cursor.rule].name
                   /\ slot.passed = FALSE
                   /\ slot.message = <<"Rule execution failed: ", "EACCES">>
            /\ replaced[cursor.service].score <= given[cursor.service].score

\* Two services and two rules in sequential mode: the first rule of the
\* second service, which had passed, throws instead; the rule after it and
\* the other service keep their passing results.
C17_Witness ==
    /\ pc = "audited-twice"
    /\ ~config.parallel
    /\ Len(services) = 2
    /\ Len(rules) = 2
    /\ cursor = [service |-> 2, rule |-> 1]
    /\ serviceResults[2].results[1].passed
    /\ serviceResults[2].results[2].passed
    /\ serviceResults[1].score = 1000
    /\ report[1].services[2].score = 500
    /\ serviceResults[2].score = 1000

\* The stages an audit invocation may go to from each stage
StageSteps ==
    { <<"discover", "discovered">>, <<"discover", "failed-discovery">>,
      <<"discovered", "instantiated">>, <<"discovered", "failed-instantiation">>,
      <<"discovered", "done">>,
      <<"instantiated", "evaluating">>,
      <<"evaluating", "done">>, <<"evaluating", "failed-evaluation">> }

\* C18: an audit invocation goes through Discover, Instantiate Rules,
\* Evaluate Services, Aggregate in that order: no rule is instantiated
\* before scan has returned, no evaluate is invoked before every configured
\* rule has been instantiated, the report of a non-empty scan is built only
\* after every service has its result, and after a discovery error nothing
\* is instantiated or evaluated and the invocation takes no further step.
C18_StagesInOrder ==
    /\ [][pc' # pc => <<pc, pc'>> \in StageSteps]_vars
    /\ [](pc \in {"discover", "discovered", "failed-discovery", "failed-instantiation"}
            => (rules = <<>> /\ NothingEvaluated))
    /\ []((evaluating # {} \/ settled # {} \/ fnCalls # <<>> \/ progressLog # <<>>)
            => /\ pc \in {"evaluating", "done", "failed-evaluation"}
               /\ Len(rules) = Len(config.rules)
               /\ \A k \in DOMAIN config.rules :
                     rules[k].config = config.rules[k] /\ rules[k].config.type \in SupportedTypes)
    /\ []((report # NoReport /\ Len(services) >= 1)
            => /\ pc = "done"
               /\ evaluating = {}
               /\ \A i \in DOMAIN services : AllSettled(i)
               /\ Len(report[1].services) = Len(services))
    /\ [](pc = "failed-discovery" => (report = NoReport /\ services = <<>> /\ ~ENABLED Next))

\* A report built after a parallel evaluation of two services against two
\* rules.
C18_Witness ==
    /\ pc = "done"
    /\ config.parallel
    /\ Len(services) = 2
    /\ Len(rules) = 2
    /\ Cardinality(settled) = 4
    /\ Len(fnCalls) = 2
    /\ report # NoReport

\* C19: a service audited with no rule configured gets an empty results
\* list, score 0 and passed true.
C19_NoRulesScoreZeroPassed ==
    (Len(config.rules) = 0 /\ pc # "unused") =>
        \A sr \in ProducedServiceResults :
            /\ sr.results = <<>>
            /\ sr.score = 0
            /\ sr.passed = TRUE

\* The report of a parallel audit of two services without rules.
C19_Witness ==
    /\ pc = "done"
    /\ config.parallel
    /\ Len(config.rules) = 0
    /\ Len(services) = 2
    /\ Len(report[1].services) = 2
    /\ report[1].services[2].score = 0
    /\ report[1].services[2].passed
    /\ report[1].summary.passRate = 10000

C21_DefaultsAlwaysApplied ==
    pc \in {"parsing", "scanned"} =>
        /\ DefaultExclude \subseteq options.exclude
        /\ \A k \in DOMAIN packageFiles : ~Ignored(packageFiles[k].dir, DefaultExclude)

C23_PassesIffMeanAtLeastThreshold ==
    (pc = "evaluated" /\ tree.coverage # <<>>) =>
        LET total == tree.coverage[1]
            sum   == total.lines + total.statements + total.functions + total.branches
            result == engineResults[1]
        IN  /\ result.passed <=> (sum >= 4 * config.rules[1].threshold)
            /\ ~result.passed => result.message = "is below threshold"

\* The batch (0-based) of the item at position k (1-based)
BatchOf(k) == (k - 1) \div concurrency

\* C24: batchProcess(items, fn, B) runs the items in consecutive batches of
\* at most B: fn is invoked on the positions in input order, a whole batch
\* at a time; no transform of a batch has been started unless every
\* transform of the batches before it has completed; at most B transforms
\* are in flight; and the returned list holds the results in input order.
C24_BatchesInOrder ==
    /\ InFlight <= concurrency
    /\ fnCalls = [k \in 1..Len(fnCalls) |-> k - 1]
    /\ Len(fnCalls) = Min(Len(items), IF mapPromise.state = "unstarted" THEN 0
                                      ELSE index + concurrency)
    /\ \A k \in DOMAIN fnPromise :
          fnPromise[k].state # "unstarted" =>
              \A j \in 1..(k - 1) : BatchOf(j) < BatchOf(k) => fnPromise[j].state = "fulfilled"
    /\ mapPromise.state = "fulfilled" =>
          /\ Len(mapPromise.value[1]) = Len(items)
          /\ \A k \in 1..Len(items) : mapPromise.value[1][k] = Transform(items[k], k - 1)

\* Four items in batches of two: the second batch is in flight, the first
\* has completed and its two values are in the results.
C24_Witness ==
    /\ Len(items) = 4
    /\ items[1] # items[2]
    /\ concurrency = 2
    /\ index = 2
    /\ fnCalls = <<0, 1, 2, 3>>
    /\ InFlight = 2
    /\ results = <<Transform(items[1], 0), Transform(items[2], 1)>>

\* The positions (1-based) of the items whose transform never completes
Hanging == {i \in DOMAIN items : Hangs(i)}

\* C25: in mapWithConcurrency with K >= 2, when the transform of one item
\* never completes and every other invocation does, every other item is
\* eventually started and completed and its value stored, and every worker
\* but the one awaiting the hanging transform has finished: the hang stalls
\* one worker slot only.
C25_HangStallsOneWorker ==
    (mapPromise.state = "pending" /\ concurrency >= 2 /\ Cardinality(Hanging) = 1)
        ~> /\ mapPromise.state = "pending"
           /\ \A i \in DOMAIN items \ Hanging :
                 /\ fnPromise[i] = Fulfilled(Transform(items[i], i - 1))
                 /\ results[i] = <<Transform(items[i], i - 1)>>
           /\ \A w \in DOMAIN workers :
                 \/ workers[w].state = "done"
                 \/ (workers[w].state = "awaiting" /\ workers[w].currentIndex + 1 \in Hanging)
           /\ Cardinality({w \in DOMAIN workers : workers[w].state = "awaiting"}) = 1

\* Four items and two workers, the first item hanging: the second worker
\* has taken the three other items one after the other and has finished.
C25_Witness ==
    /\ Len(items) = 4
    /\ concurrency = 2
    /\ Hanging = {1}
    /\ Len(workers) = 2
    /\ workers[1] = [state |-> "awaiting", currentIndex |-> 0]
    /\ workers[2].state = "done"
    /\ \A i \in 2..4 : results[i] = <<Transform(items[i], i - 1)>>
    /\ mapPromise.state = "pending"

\* C27: if every transform invocation eventually completes without error
\* (K >= 1), mapWithConcurrency eventually resolves; when it has resolved,
\* every one of the N items has a completed transform whose value is in
\* the list and no worker is still running; with N = 0 it resolves to an
\* empty list without invoking the transform.
C27_MappingResolves ==
    /\ (mapPromise.state = "pending" /\ Hanging = {}) ~> mapPromise.state = "fulfilled"
    /\ [](mapPromise.state = "fulfilled" =>
            /\ Len(fnCalls) = Len(items)
            /\ \A i \in DOMAIN items :
                  /\ fnPromise[i] = Fulfilled(Transform(items[i], i - 1))
                  /\ mapPromise.value[1][i] = fnPromise[i].value
            /\ \A w \in DOMAIN workers : workers[w].state = "done")
    /\ []((Len(items) = 0 /\ mapPromise.state # "unstarted") =>
            /\ fnCalls = <<>>
            /\ workers = <<>>
            /\ mapPromise \in {Pending, Fulfilled(<<>>)})

\* Resolved after four transforms on three workers, every worker done.
C27_Witness ==
    /\ mapPromise.state = "fulfilled"
    /\ Len(items) = 4
    /\ concurrency = 3
    /\ Hanging = {}
    /\ Len(fnCalls) = 4
    /\ \A w \in 1..3 : workers[w].state = "done"
    /\ Len(mapPromise.value[1]) = 4

\* C26: once one transform invocation of mapWithConcurrency has failed, no
\* worker starts a transform on an item that had not been claimed at that
\* moment. A worker claims an item and invokes the transform on it in one
\* step, so this says that no transform is invoked after a failure.
C26_NoTransformStartedAfterFailure ==
    [][SomeTransformFailed => fnCalls' = fnCalls]_vars

\* The rule evaluations started so far: <<service, rule>> positions
Started == evaluating \cup {<<x.service, x.rule>> : x \in settled}

\* Position a comes before position b in the sequential order
Before(a, b) == a[1] < b[1] \/ (a[1] = b[1] /\ a[2] < b[2])

\* C28: with parallel = false at most one rule evaluation is in flight at
\* any moment: an evaluation has been started only if every evaluation
\* before it (the earlier rules of its service, and every rule of every
\* earlier service) has completed or thrown.
C28_SequentialOneAtATime ==
    (pc # "unused" /\ ~config.parallel) =>
        /\ Cardinality(evaluating) <= 1
        /\ \A b \in Started :
              \A a \in (1..b[1]) \X (DOMAIN rules) :
                  Before(a, b) => (a \in Started /\ a \notin evaluating)

\* Sequential audit of two services under two rules: the first rule of the
\* second service is being evaluated, both rules of the first service have
\* settled, one of them by throwing.
C28_Witness ==
    /\ pc = "evaluating"
    /\ ~config.parallel
    /\ Len(rules) = 2
    /\ evaluating = {<<2, 1>>}
    /\ Cardinality(settled) = 2
    /\ \E x \in settled : x.service = 1 /\ x.rule = 2 /\ x.outcome.kind = "throw"

\* C29: progress reporting is best-effort: with a progress callback that
\* throws, in sequential mode and in parallel mode, the audit does not
\* fail at the evaluation stage, and the report it returns holds every
\* service's result in discovery order.
C29_ThrowingCallbackDoesNotAbort ==
    onProgress = "throws" =>
        /\ pc # "failed-evaluation"
        /\ mapPromise.state # "rejected"
        /\ pc = "done" =>
              /\ Len(report[1].services) = Len(services)
              /\ \A i \in DOMAIN services : report[1].services[i].serviceName = services[i].name

\* C30: in every report audit returns, totalServices is the length of the
\* services list, passedServices the number of its services with passed =
\* true and failedServices = totalServices - passedServices, the number
\* with passed = false, so passedServices + failedServices = totalServices.
C30_SummaryCountsAddUp ==
    (pc = "done" /\ report # NoReport) =>
        LET listed == report[1].services
            counts == report[1].summary
        IN  /\ counts.totalServices = Len(listed)
            /\ counts.totalServices = Len(services)
            /\ counts.passedServices = Cardinality({i \in DOMAIN listed : listed[i].passed})
            /\ counts.failedServices = Cardinality({i \in DOMAIN listed : ~listed[i].passed})
            /\ counts.failedServices = counts.totalServices - counts.passedServices
            /\ counts.passedServices + counts.failedServices = counts.totalServices

\* The report of a sequential audit of three services under one required
\* rule: two passed, one failed.
C30_Witness ==
    /\ pc = "done"
    /\ ~config.parallel
    /\ Len(config.rules) = 1
    /\ config.rules[1].required
    /\ Len(report[1].services) = 3
    /\ report[1].summary.passedServices = 2
    /\ report[1].summary.failedServices = 1
    /\ ~report[1].services[3].passed

====
